---- MODULE Spec2Model ----
(***************************************************************************)
(* A model of the to-do application: the task list kept by the useTasks    *)
(* hook, the reminders kept by the notification scheduler behind the       *)
(* useNotifications hook, and the ordering computed by the App screen.     *)
(*                                                                         *)
(* Encoding of JavaScript values:                                          *)
(*   - a timestamp is a positive integer; an undefined dueDate is NoDate;  *)
(*   - a notification identifier is a positive integer; an undefined or    *)
(*     null identifier is NoId;                                            *)
(*   - a null selectedProjectId is NoProject;                              *)
(*   - the description field is carried through unread by every policy    *)
(*     and is left out of the task record.                                 *)
(***************************************************************************)
EXTENDS Integers, Sequences, FiniteSets, TLC

VARIABLES
    now,                \* Date.now()
    tasks,              \* useTasks: the tasks state
    saved,              \* payload of the most recent saveTasks call
    scheduler,          \* reminders registered with expo-notifications
    nextNid,            \* next identifier the scheduler hands out
    addOp,              \* addTask: position and locals of the call in flight
    updOp,              \* updateTaskWithLogic: position and locals
    delOp,              \* deleteTask: the confirmation dialog
    interleaved,        \* handler calls and clock ticks since a handler began to wait
    selectedProjectId,  \* App: the project filter
    displayed,          \* App: filteredAndSortedTasks
    stored,             \* AsyncStorage holds a value under STORAGE_KEY
    loading,            \* useTasks: the loading state
    loadOp              \* loadTasks: position and locals of the call on mount

vars == <<now, tasks, saved, scheduler, nextNid, addOp, updOp, delOp, interleaved,
          selectedProjectId, displayed, stored, loading, loadOp>>

(***************************************************************************)
(* Bounds of the model.                                                    *)
(***************************************************************************)
MaxTime == 3        \* the clock runs over 1..MaxTime
MaxTasks == 2       \* longest task list of the lifecycle specification
MaxNid == 2         \* identifiers the scheduler may hand out
MaxInterleave == 1  \* handler calls and ticks that may fall into one await
MaxOrderLen == 3    \* longest task list of the ordering specification
RenderTime == 3     \* the time at which the ordering specification renders

(***************************************************************************)
(* Data definitions (useTasks.ts).                                         *)
(***************************************************************************)
NoDate == 0
NoId == 0
NoProject == ""

P1 == 1
P2 == 2
P3 == 3
P4 == 4
Priority == {P1, P2, P3, P4}

DEFAULT_PROJECTS == {"inbox", "personal", "work", "shopping"}

Task(id, title, completed, createdAt, dueDate, priority, projectId, notificationId) ==
    [id |-> id, title |-> title, completed |-> completed, createdAt |-> createdAt,
     dueDate |-> dueDate, priority |-> priority, projectId |-> projectId,
     notificationId |-> notificationId]

(***************************************************************************)
(* The ordering of the App screen (filteredAndSortedTasks).                *)
(***************************************************************************)

\* Overdue with the comparison a.dueDate <= now
OverdueAtNow(t, n) ==
    IF t.dueDate = NoDate THEN "undefined"
    ELSE IF t.dueDate <= n THEN "true" ELSE "false"

\* a.dueDate && a.dueDate < now : undefined when there is no due date,
\* otherwise the boolean of the comparison.
Overdue(t, n) ==
    IF t.dueDate = NoDate THEN "undefined"
    ELSE IF t.dueDate < n THEN "true" ELSE "false"

\* CompletedOrder with the two results exchanged
CompletedFirst(a, b) ==
    IF a.completed # b.completed THEN (IF a.completed THEN -1 ELSE 1) ELSE 0

\* if (a.completed !== b.completed) return a.completed ? 1 : -1;
CompletedOrder(a, b) ==
    IF a.completed # b.completed THEN (IF a.completed THEN 1 ELSE -1) ELSE 0

\* if (aOverdue !== bOverdue) return aOverdue ? -1 : 1;
OverdueOrder(a, b, n) ==
    IF Overdue(a, n) # Overdue(b, n)
    THEN (IF Overdue(a, n) = "true" THEN -1 ELSE 1)
    ELSE 0

\* if (a.priority !== b.priority) return a.priority - b.priority;
PriorityOrder(a, b) == a.priority - b.priority

\* the due date rules and the creation time, lines 81-87
DateOrder(a, b) ==
    IF a.dueDate # NoDate /\ b.dueDate # NoDate THEN a.dueDate - b.dueDate
    ELSE IF a.dueDate # NoDate THEN -1
    ELSE IF b.dueDate # NoDate THEN 1
    ELSE b.createdAt - a.createdAt

\* The comparator handed to Array.prototype.sort.
Compare(a, b, n) ==
    IF CompletedOrder(a, b) # 0 THEN CompletedOrder(a, b)
    ELSE IF OverdueOrder(a, b, n) # 0 THEN OverdueOrder(a, b, n)
    ELSE IF PriorityOrder(a, b) # 0 THEN PriorityOrder(a, b)
    ELSE DateOrder(a, b)

\* Array.prototype.sort on a short array is a stable insertion sort: each
\* element moves left past the elements it compares strictly less than.
RECURSIVE InsertFrom(_, _, _, _)
InsertFrom(sorted, e, j, n) ==
    IF j > 0 /\ Compare(e, sorted[j], n) < 0
    THEN InsertFrom(sorted, e, j - 1, n)
    ELSE SubSeq(sorted, 1, j) \o <<e>> \o SubSeq(sorted, j + 1, Len(sorted))

RECURSIVE SortFrom(_, _, _)
SortFrom(sorted, rest, n) ==
    IF rest = << >> THEN sorted
    ELSE SortFrom(InsertFrom(sorted, Head(rest), Len(sorted), n), Tail(rest), n)

Sort(list, n) == SortFrom(<< >>, list, n)

\* FilterByProject that retains every task
FilterKeepsAll(list, sel) == list

\* if (selectedProjectId) result = result.filter(t => t.projectId === selectedProjectId)
FilterByProject(list, sel) ==
    IF sel # NoProject THEN SelectSeq(list, LAMBDA t : t.projectId = sel) ELSE list

filteredAndSortedTasks(list, sel, n) == Sort(FilterByProject(list, sel), n)

(***************************************************************************)
(* The notification collaborator (useNotifications.ts).  A call returns    *)
(* the set of its possible outcomes: the native call may succeed or throw, *)
(* and a thrown error is caught and logged.                                *)
(***************************************************************************)
\* a registration: the identifier and the trigger date
Reminder(id, date) == [id |-> id, date |-> date]

ScheduleCall(title, date, ret) == [fn |-> "schedule", id |-> ret, title |-> title, date |-> date]
CancelCall(id) == [fn |-> "cancel", id |-> id, title |-> "", date |-> NoDate]

\* scheduleReminder(title, body, date): null when the date is not in the
\* future or the native call throws, otherwise the new identifier.
scheduleReminder(sch, nid, title, date, n) ==
    IF date <= n
    THEN {[ret |-> NoId, scheduler |-> sch, nextNid |-> nid]}
    ELSE {[ret |-> NoId, scheduler |-> sch, nextNid |-> nid]}
         \cup (IF nid <= MaxNid
               THEN {[ret |-> nid,
                      scheduler |-> sch \cup {Reminder(nid, date)},
                      nextNid |-> nid + 1]}
               ELSE {})

\* cancelReminder(identifier): the registration is removed, or the native
\* call throws and the registration stays.
cancelReminder(sch, identifier) ==
    {{r \in sch : r.id # identifier}, sch}

(***************************************************************************)
(* Inputs of the handlers.                                                 *)
(***************************************************************************)
Times == 1..MaxTime
DueDates == {NoDate} \cup (Times \ {1})
\* what the form of AddTaskModal submits besides the due date
Forms == {[title |-> "a", priority |-> P4, projectId |-> "inbox"],
          [title |-> "b", priority |-> P1, projectId |-> "work"]}

(***************************************************************************)
(* useTasks.ts                                                             *)
(***************************************************************************)
\* a handler is past an await whose promise has not resumed it yet
Awaiting(a, u) == a.pc # "idle" \/ u.pc # "idle"

\* a handler call or a tick may fall into the await of another handler
MayInterleave == ~Awaiting(addOp, updOp) \/ interleaved < MaxInterleave

Interleave ==
    interleaved' = IF Awaiting(addOp, updOp) /\ Awaiting(addOp', updOp')
                   THEN interleaved + 1 ELSE 0

\* a handler resumes
Resume ==
    interleaved' = IF Awaiting(addOp', updOp') THEN interleaved ELSE 0

\* prevTasks.find(t => t.id === id) : the index of the first match, 0 if none
RECURSIVE FindIndexFrom(_, _, _)
FindIndexFrom(list, id, i) ==
    IF i > Len(list) THEN 0
    ELSE IF list[i].id = id THEN i
    ELSE FindIndexFrom(list, id, i + 1)

FindIndex(list, id) == FindIndexFrom(list, id, 1)

\* saveTasks that writes the changed front of the list only
saveTasksPartial(newTasks) ==
    /\ saved' = SubSeq(newTasks, 1, 1)
    /\ stored' = TRUE

\* saveTasks(newTasks): the whole list is written
saveTasks(newTasks) ==
    /\ saved' = newTasks
    /\ stored' = TRUE

\* the App screen renders the new list
Render(newTasks) ==
    displayed' = filteredAndSortedTasks(newTasks, selectedProjectId, now)

IdleAdd == [pc |-> "idle", title |-> "", dueDate |-> NoDate, priority |-> P4,
            projectId |-> "inbox", notificationId |-> NoId, log |-> << >>]

\* AddTaskCommit without the identifier of the reminder
AddTaskWithoutReminder(title, dueDate, priority, projectId, notificationId) ==
    LET newTask == Task(now, title, FALSE, now, dueDate, priority, projectId, NoId)
        updated == <<newTask>> \o tasks
    IN  /\ tasks' = updated
        /\ saved' = updated
        /\ stored' = TRUE
        /\ displayed' = filteredAndSortedTasks(updated, selectedProjectId, now)
        /\ addOp' = [pc |-> "idle", title |-> "", dueDate |-> NoDate, priority |-> P4,
                     projectId |-> "inbox", notificationId |-> NoId, log |-> << >>]

\* addTask, lines 94-110: the new task is put in front of the list
AddTaskCommit(title, dueDate, priority, projectId, notificationId) ==
    LET newTask == Task(now, title, FALSE, now, dueDate, priority, projectId,
                        notificationId)
        updated == <<newTask>> \o tasks
    IN  /\ tasks' = updated
        /\ saveTasks(updated)
        /\ Render(updated)
        /\ addOp' = IdleAdd

\* addTask, lines 87-92: up to the await of scheduleReminder, or to the end
\* when there is nothing to schedule
AddTaskCall(title, dueDate, priority, projectId) ==
    /\ addOp.pc = "idle"
    /\ delOp.pc = "idle"
    /\ MayInterleave
    /\ Len(tasks) < MaxTasks
    /\ IF dueDate # NoDate /\ dueDate > now
       THEN \E o \in scheduleReminder(scheduler, nextNid, title, dueDate, now) :
                /\ scheduler' = o.scheduler
                /\ nextNid' = o.nextNid
                /\ addOp' = [pc |-> "scheduled", title |-> title, dueDate |-> dueDate,
                             priority |-> priority, projectId |-> projectId,
                             notificationId |-> o.ret,
                             log |-> <<ScheduleCall(title, dueDate, o.ret)>>]
                /\ UNCHANGED <<tasks, saved, stored, displayed>>
       ELSE /\ AddTaskCommit(title, dueDate, priority, projectId, NoId)
            /\ UNCHANGED <<scheduler, nextNid>>
    /\ UNCHANGED <<now, updOp, delOp, selectedProjectId, loading, loadOp>>
    /\ Interleave

\* addTask resumes after the await
AddTaskResume ==
    /\ addOp.pc = "scheduled"
    /\ AddTaskCommit(addOp.title, addOp.dueDate, addOp.priority, addOp.projectId,
                     addOp.notificationId)
    /\ UNCHANGED <<now, scheduler, nextNid, updOp, delOp, selectedProjectId, loading,
                   loadOp>>
    /\ Resume

IdleUpd == [pc |-> "idle", id |-> 0, title |-> "", dueDate |-> NoDate, priority |-> P4,
            projectId |-> "inbox", closure |-> << >>, taskIndex |-> 0, branch |-> "",
            notificationId |-> NoId, newId |-> NoId, log |-> << >>]

\* updateTaskWithLogic, lines 200-214: the task at taskIndex of the list the
\* handler closed over is replaced, and that list becomes the state
UpdateCommit(op) ==
    LET task == op.closure[op.taskIndex]
        updatedTask == [task EXCEPT !.title = op.title,
                                    !.dueDate = op.dueDate,
                                    !.priority = op.priority,
                                    !.projectId = op.projectId,
                                    !.notificationId = op.notificationId]
        newTasks == [op.closure EXCEPT ![op.taskIndex] = updatedTask]
    IN  /\ tasks' = newTasks
        /\ saveTasks(newTasks)
        /\ Render(newTasks)
        /\ updOp' = IdleUpd

\* ScheduleNew that gives the task its old identifier back when there is
\* nothing to schedule
ScheduleNewKeepsId(op) ==
    IF op.dueDate # NoDate /\ op.dueDate > now
    THEN \E o \in scheduleReminder(scheduler, nextNid, op.title, op.dueDate, now) :
            /\ scheduler' = o.scheduler
            /\ nextNid' = o.nextNid
            /\ updOp' = [op EXCEPT !.pc = "scheduled", !.newId = o.ret,
                                   !.log = Append(@, ScheduleCall(op.title, op.dueDate, o.ret))]
            /\ UNCHANGED <<tasks, saved, stored, displayed>>
    ELSE /\ UpdateCommit([op EXCEPT !.notificationId =
                                        op.closure[op.taskIndex].notificationId])
         /\ UNCHANGED <<scheduler, nextNid>>

\* lines 185-189: schedule a reminder for the new due date
ScheduleNew(op) ==
    IF op.dueDate # NoDate /\ op.dueDate > now
    THEN \E o \in scheduleReminder(scheduler, nextNid, op.title, op.dueDate, now) :
            /\ scheduler' = o.scheduler
            /\ nextNid' = o.nextNid
            /\ updOp' = [op EXCEPT !.pc = "scheduled", !.newId = o.ret,
                                   !.log = Append(@, ScheduleCall(op.title, op.dueDate, o.ret))]
            /\ UNCHANGED <<tasks, saved, stored, displayed>>
    ELSE /\ UpdateCommit(op)
         /\ UNCHANGED <<scheduler, nextNid>>

\* await cancelReminder(...): the call is made and the handler waits
CancelOld(op, identifier, pc) ==
    \E s \in cancelReminder(scheduler, identifier) :
        /\ scheduler' = s
        /\ updOp' = [op EXCEPT !.pc = pc, !.log = <<CancelCall(identifier)>>]
        /\ UNCHANGED <<tasks, saved, stored, displayed, nextNid>>

\* updateTaskWithLogic, lines 172-198, up to its first await
UpdateTaskCall(id, title, dueDate, priority, projectId) ==
    /\ updOp.pc = "idle"
    /\ delOp.pc = "idle"
    /\ MayInterleave
    /\ LET taskIndex == FindIndex(tasks, id) IN
       IF taskIndex = 0
       THEN UNCHANGED <<tasks, saved, stored, displayed, scheduler, nextNid, updOp>>
       ELSE LET task == tasks[taskIndex]
                op == [pc |-> "run", id |-> id, title |-> title, dueDate |-> dueDate,
                       priority |-> priority, projectId |-> projectId,
                       closure |-> tasks, taskIndex |-> taskIndex, branch |-> "",
                       notificationId |-> task.notificationId, newId |-> NoId,
                       log |-> << >>]
            IN  IF dueDate # task.dueDate
                THEN IF task.notificationId # NoId
                     THEN CancelOld([op EXCEPT !.branch = "due", !.notificationId = NoId],
                                    task.notificationId, "dueCancel")
                     ELSE ScheduleNew([op EXCEPT !.branch = "due"])
                ELSE IF title # task.title /\ task.notificationId # NoId
                THEN IF task.dueDate # NoDate /\ task.dueDate > now
                     THEN CancelOld([op EXCEPT !.branch = "title"],
                                    task.notificationId, "titleCancel")
                     ELSE /\ UpdateCommit([op EXCEPT !.branch = "title"])
                          /\ UNCHANGED <<scheduler, nextNid>>
                ELSE /\ UpdateCommit(op)
                     /\ UNCHANGED <<scheduler, nextNid>>
    /\ UNCHANGED <<now, addOp, delOp, selectedProjectId, loading, loadOp>>
    /\ Interleave

\* after the await of line 182
UpdateAfterDueCancel ==
    /\ updOp.pc = "dueCancel"
    /\ ScheduleNew(updOp)
    /\ UNCHANGED <<now, addOp, delOp, selectedProjectId, loading, loadOp>>
    /\ Resume

\* after the await of line 194: line 195
UpdateAfterTitleCancel ==
    /\ updOp.pc = "titleCancel"
    /\ LET date == updOp.closure[updOp.taskIndex].dueDate IN
       \E o \in scheduleReminder(scheduler, nextNid, updOp.title, date, now) :
            /\ scheduler' = o.scheduler
            /\ nextNid' = o.nextNid
            /\ updOp' = [updOp EXCEPT !.pc = "scheduled", !.newId = o.ret,
                                      !.log = Append(@, ScheduleCall(updOp.title, date, o.ret))]
    /\ UNCHANGED <<now, tasks, saved, stored, displayed, addOp, delOp, selectedProjectId,
                   loading, loadOp>>
    /\ Resume

\* UpdateResume that falls back to the identifier the task had
UpdateResumeKeepsOld ==
    /\ updOp.pc = "scheduled"
    /\ UpdateCommit([updOp EXCEPT !.notificationId =
                        IF updOp.newId # NoId THEN updOp.newId
                        ELSE updOp.closure[updOp.taskIndex].notificationId])
    /\ UNCHANGED <<now, scheduler, nextNid, addOp, delOp, selectedProjectId, loading,
                   loadOp>>
    /\ Resume

\* after the await of line 187 or 195: if (newId) notificationId = newId
UpdateResume ==
    /\ updOp.pc = "scheduled"
    /\ UpdateCommit([updOp EXCEPT !.notificationId =
                        IF updOp.newId # NoId THEN updOp.newId ELSE @])
    /\ UNCHANGED <<now, scheduler, nextNid, addOp, delOp, selectedProjectId, loading,
                   loadOp>>
    /\ Resume

\* toggleTask, lines 224-251
ToggleTask(id) ==
    /\ delOp.pc = "idle"
    /\ MayInterleave
    /\ LET taskIndex == FindIndex(tasks, id) IN
       IF taskIndex = 0
       THEN UNCHANGED <<tasks, saved, stored, displayed, scheduler, nextNid>>
       ELSE LET task == tasks[taskIndex]
                completed == ~task.completed
                updated == [i \in 1..Len(tasks) |->
                               IF tasks[i].id = id
                               THEN [tasks[i] EXCEPT !.completed = completed]
                               ELSE tasks[i]]
            IN  /\ IF completed /\ task.notificationId # NoId
                   THEN \E s \in cancelReminder(scheduler, task.notificationId) :
                            /\ scheduler' = s
                            /\ UNCHANGED nextNid
                   ELSE IF ~completed /\ task.dueDate # NoDate /\ task.dueDate > now
                   THEN \E o \in scheduleReminder(scheduler, nextNid, task.title,
                                                  task.dueDate, now) :
                            /\ scheduler' = o.scheduler
                            /\ nextNid' = o.nextNid
                   ELSE UNCHANGED <<scheduler, nextNid>>
                /\ tasks' = updated
                /\ saveTasks(updated)
                /\ Render(updated)
    /\ UNCHANGED <<now, addOp, updOp, delOp, selectedProjectId, loading, loadOp>>
    /\ Interleave

IdleDel == [pc |-> "idle", id |-> 0]

\* deleteTask, lines 254-279: the confirmation dialog is shown
DeleteTaskCall(id) ==
    /\ delOp.pc = "idle"
    /\ MayInterleave
    /\ delOp' = [pc |-> "alert", id |-> id]
    /\ UNCHANGED <<now, tasks, saved, stored, displayed, scheduler, nextNid, addOp, updOp,
                   selectedProjectId, loading, loadOp>>
    /\ Interleave

\* the "Delete" button of the dialog, lines 266-276
DeleteConfirm ==
    /\ delOp.pc = "alert"
    /\ LET taskIndex == FindIndex(tasks, delOp.id)
           updated == SelectSeq(tasks, LAMBDA t : t.id # delOp.id)
       IN  /\ IF taskIndex # 0 /\ tasks[taskIndex].notificationId # NoId
              THEN \E s \in cancelReminder(scheduler, tasks[taskIndex].notificationId) :
                       scheduler' = s
              ELSE UNCHANGED scheduler
           /\ tasks' = updated
           /\ saveTasks(updated)
           /\ Render(updated)
    /\ delOp' = IdleDel
    /\ UNCHANGED <<now, nextNid, addOp, updOp, interleaved, selectedProjectId, loading,
                   loadOp>>

\* the "Cancel" button of the dialog
DeleteDecline ==
    /\ delOp.pc = "alert"
    /\ delOp' = IdleDel
    /\ UNCHANGED <<now, tasks, saved, stored, displayed, scheduler, nextNid, addOp, updOp,
                   interleaved, selectedProjectId, loading, loadOp>>

\* time passes
Tick ==
    /\ now < MaxTime
    /\ MayInterleave
    /\ now' = now + 1
    /\ UNCHANGED <<tasks, saved, stored, displayed, scheduler, nextNid, addOp, updOp, delOp,
                   selectedProjectId, loading, loadOp>>
    /\ Interleave

\* loadTasks has run to its end
LoadDone == [pc |-> "done", item |-> "null", value |-> << >>]

TaskIds == {tasks[i].id : i \in 1..Len(tasks)}

\* the state after the hooks are constructed, useState([]) and no reminders,
\* and after the loadTasks call of the mount has found no stored value
Init ==
    /\ now = 1
    /\ tasks = << >>
    /\ saved = << >>
    /\ scheduler = {}
    /\ nextNid = 1
    /\ addOp = IdleAdd
    /\ updOp = IdleUpd
    /\ delOp = IdleDel
    /\ interleaved = 0
    /\ selectedProjectId = NoProject
    /\ displayed = << >>
    /\ stored = FALSE
    /\ loading = FALSE
    /\ loadOp = LoadDone

Next ==
    \/ \E f \in Forms, dueDate \in DueDates :
          AddTaskCall(f.title, dueDate, f.priority, f.projectId)
    \/ AddTaskResume
    \/ \E id \in Times, f \in Forms, dueDate \in DueDates :
          UpdateTaskCall(id, f.title, dueDate, f.priority, f.projectId)
    \/ UpdateAfterDueCancel
    \/ UpdateAfterTitleCancel
    \/ UpdateResume
    \/ \E id \in TaskIds : ToggleTask(id)
    \/ \E id \in TaskIds : DeleteTaskCall(id)
    \/ DeleteConfirm
    \/ DeleteDecline
    \/ Tick

Spec == Init /\ [][Next]_vars

(***************************************************************************)
(* loadTasks, useTasks.ts lines 51-69: the mount reads the stored list.    *)
(* JSON.stringify leaves an undefined field out and JSON.parse gives it    *)
(* back as undefined, and numbers, strings and booleans come back as they  *)
(* were written, so the stored value is kept as the list that was saved.   *)
(* A record written before priorities and projects existed has neither     *)
(* field: its priority is NoPriority and its projectId is NoProject, the   *)
(* falsy values of t.priority || ... and t.projectId || ...                *)
(***************************************************************************)
NoPriority == 0

\* Migrate that fills in the priority only
MigratePriorityOnly(t) ==
    [t EXCEPT !.priority = IF @ = NoPriority THEN P4 ELSE @]

\* lines 57-61: loadedTasks.map(t => ({...t, priority: ..., projectId: ...}))
Migrate(t) ==
    [t EXCEPT !.priority = IF @ = NoPriority THEN P4 ELSE @,
              !.projectId = IF @ = NoProject THEN "inbox" ELSE @]

MigrateAll(loadedTasks) == [i \in 1..Len(loadedTasks) |-> Migrate(loadedTasks[i])]

\* loadTasks is waiting for AsyncStorage.getItem
LoadPending == [pc |-> "getItem", item |-> "null", value |-> << >>]

\* line 53: getItem settles, with the stored value, with null or with an error
LoadGetItem ==
    /\ loadOp.pc = "getItem"
    /\ \E item \in {IF stored THEN "value" ELSE "null", "error"} :
          loadOp' = [pc |-> "resume", item |-> item,
                     value |-> IF item = "value" THEN saved ELSE << >>]
    /\ UNCHANGED <<now, tasks, saved, stored, displayed, scheduler, nextNid, addOp, updOp,
                   delOp, interleaved, selectedProjectId, loading>>

\* LoadResume that skips the migration
LoadWithoutMigration ==
    /\ loadOp.pc = "resume"
    /\ IF loadOp.item = "value"
       THEN /\ tasks' = loadOp.value
            /\ displayed' = filteredAndSortedTasks(loadOp.value, selectedProjectId, now)
       ELSE UNCHANGED <<tasks, displayed>>
    /\ loading' = FALSE
    /\ loadOp' = LoadDone
    /\ UNCHANGED <<now, saved, stored, scheduler, nextNid, addOp, updOp, delOp,
                   interleaved, selectedProjectId>>

\* lines 54-68: setTasks(migratedTasks) when a value was read, setLoading(false)
LoadResume ==
    /\ loadOp.pc = "resume"
    /\ IF loadOp.item = "value"
       THEN /\ tasks' = MigrateAll(loadOp.value)
            /\ Render(MigrateAll(loadOp.value))
       ELSE UNCHANGED <<tasks, displayed>>
    /\ loading' = FALSE
    /\ loadOp' = LoadDone
    /\ UNCHANGED <<now, saved, stored, scheduler, nextNid, addOp, updOp, delOp,
                   interleaved, selectedProjectId>>

\* the records an earlier session can have left in the store: created before
\* this session, the newest in front, without reminders
StoredPriorities == {NoPriority, P1, P4}
StoredProjects == {NoProject, "inbox", "work"}

StoredFields == [completed : BOOLEAN, priority : StoredPriorities, projectId : StoredProjects]

StoredCreationTimes(n) ==
    {c \in [1..n -> 1..(MaxTime - 1)] : \A i \in 1..(n - 1) : c[i] > c[i + 1]}

StoredInput(n, f, c) ==
    [i \in 1..n |->
        Task(c[i], "a", f[i].completed, c[i], NoDate, f[i].priority, f[i].projectId, NoId)]

\* the state after the hooks are constructed: useState([]), useState(true),
\* and the loadTasks call of the mount waiting for the store
InitLoad ==
    /\ now = MaxTime
    /\ tasks = << >>
    /\ \/ /\ stored = FALSE
          /\ saved = << >>
       \/ /\ stored = TRUE
          /\ \E n \in 0..MaxTasks :
                \E f \in [1..n -> StoredFields], c \in StoredCreationTimes(n) :
                    saved = StoredInput(n, f, c)
    /\ scheduler = {}
    /\ nextNid = 1
    /\ addOp = IdleAdd
    /\ updOp = IdleUpd
    /\ delOp = IdleDel
    /\ interleaved = 0
    /\ selectedProjectId = NoProject
    /\ displayed = << >>
    /\ loading = TRUE
    /\ loadOp = LoadPending

NextLoad ==
    \/ LoadGetItem
    \/ LoadResume
    \/ \E f \in Forms, dueDate \in DueDates :
          AddTaskCall(f.title, dueDate, f.priority, f.projectId)
    \/ \E id \in TaskIds, f \in Forms, dueDate \in DueDates :
          UpdateTaskCall(id, f.title, dueDate, f.priority, f.projectId)
    \/ \E id \in TaskIds : ToggleTask(id)
    \/ \E id \in TaskIds : DeleteTaskCall(id)
    \/ DeleteConfirm
    \/ DeleteDecline

SpecLoad == InitLoad /\ [][NextLoad]_vars

(***************************************************************************)
(* The ordering on its own: the screen renders a task list the hook can    *)
(* hold, and the user moves the project filter.  addTask puts a new task   *)
(* in front and no handler moves a task, so the list of the hook is in     *)
(* descending order of createdAt, and a task is created before it is       *)
(* rendered.  The lists drawn here hold tasks created at different times.  *)
(***************************************************************************)
OrderPriorities == {P1, P4}
OrderProjects == {"inbox", "work"}

OrderDueDates == {NoDate} \cup (1..(RenderTime + 1))

OrderFields ==
    [completed : BOOLEAN, dueDate : OrderDueDates, priority : OrderPriorities,
     projectId : OrderProjects]

\* the creation times of a list of n tasks, the newest in front
CreationTimes(n) ==
    {c \in [1..n -> 1..RenderTime] : \A i \in 1..(n - 1) : c[i] > c[i + 1]}

\* the list of n tasks with the fields f created at the times c
OrderInput(n, f, c) ==
    [i \in 1..n |->
        Task(c[i], "a", f[i].completed, c[i], f[i].dueDate, f[i].priority,
             f[i].projectId, NoId)]

\* ProjectFilter: onSelectProject(null) or onSelectProject(project.id)
SelectProject(p) ==
    /\ p # selectedProjectId
    /\ selectedProjectId' = p
    /\ displayed' = filteredAndSortedTasks(tasks, p, now)
    /\ UNCHANGED <<now, tasks, saved, stored, scheduler, nextNid, addOp, updOp, delOp,
                   interleaved, loading, loadOp>>

InitOrder ==
    /\ now = RenderTime
    /\ \E n \in 0..MaxOrderLen :
          \E f \in [1..n -> OrderFields], c \in CreationTimes(n) :
              tasks = OrderInput(n, f, c)
    /\ saved = tasks
    /\ scheduler = {}
    /\ nextNid = 1
    /\ addOp = IdleAdd
    /\ updOp = IdleUpd
    /\ delOp = IdleDel
    /\ interleaved = 0
    /\ selectedProjectId = NoProject
    /\ displayed = filteredAndSortedTasks(tasks, NoProject, now)
    /\ stored = TRUE
    /\ loading = FALSE
    /\ loadOp = LoadDone

NextOrder == \E p \in {NoProject} \cup DEFAULT_PROJECTS : SelectProject(p)

SpecOrder == InitOrder /\ [][NextOrder]_vars

(***************************************************************************)
(* Properties of the ordering, checked under SpecOrder.                    *)
(***************************************************************************)
\* a due date strictly before the current time
IsOverdue(t) == t.dueDate # NoDate /\ t.dueDate < now

SameGroup(a, b) == a.completed = b.completed /\ IsOverdue(a) = IsOverdue(b)

Positions == 1..Len(displayed)

\* C2: in the displayed order, of two tasks with the same completion state
\* and the same overdue state the one with the smaller priority value comes
\* first, whether or not they have due dates.
C2_PriorityAscending ==
    \A i, j \in Positions :
        (i < j /\ SameGroup(displayed[i], displayed[j]))
            => displayed[i].priority <= displayed[j].priority

\* the tasks the rules 1 to 5 cannot tell apart
Tied(a, b) ==
    /\ SameGroup(a, b)
    /\ a.priority = b.priority
    /\ a.dueDate = b.dueDate
    /\ a.createdAt = b.createdAt

NoTies(list) == \A i, j \in 1..Len(list) : i # j => ~Tied(list[i], list[j])

Rearrangements(list) ==
    {[i \in 1..Len(list) |-> list[f[i]]] :
        f \in {g \in [1..Len(list) -> 1..Len(list)] :
                  \A x, y \in 1..Len(list) : x # y => g[x] # g[y]}}

\* C3: ordering the output again changes nothing, and, where no two tasks
\* are tied under every rule, every arrangement of the input list gives the
\* same output.
C3_IdempotentAndDeterministic ==
    /\ filteredAndSortedTasks(displayed, selectedProjectId, now) = displayed
    /\ NoTies(tasks) =>
          \A l \in Rearrangements(tasks) :
              filteredAndSortedTasks(l, selectedProjectId, now) = displayed

\* C4: in the output no completed task comes before an incomplete one.
C4_CompletedLast ==
    \A i, j \in Positions :
        i < j => ~(displayed[i].completed /\ ~displayed[j].completed)

\* the input has a completed task in front of an incomplete one, and both
\* are displayed
C4_Witness ==
    /\ Len(tasks) = 2
    /\ tasks[1].completed /\ ~tasks[2].completed
    /\ IsOverdue(tasks[1]) /\ tasks[1].priority = P1
    /\ ~IsOverdue(tasks[2]) /\ tasks[2].priority = P4
    /\ displayed = <<tasks[2], tasks[1]>>

\* C5: among tasks of equal completion state a task whose due date is
\* strictly before the current time comes before every task that is not
\* overdue, whatever the priorities: a priority 1 task due later comes after
\* a lower priority task that is overdue.
C5_OverdueFirst ==
    /\ \A i, j \in Positions :
          (i < j /\ displayed[i].completed = displayed[j].completed
                 /\ IsOverdue(displayed[j]))
             => IsOverdue(displayed[i])
    /\ \A a, b \in Positions :
          (/\ ~displayed[a].completed /\ ~displayed[b].completed
           /\ displayed[a].priority < displayed[b].priority
           /\ displayed[a].dueDate > now
           /\ IsOverdue(displayed[b]))
             => b < a

\* the input is [A, B] with A of priority 1 due later and B of lower
\* priority overdue, and the output is [B, A]
C5_Witness ==
    /\ Len(tasks) = 2
    /\ ~tasks[1].completed /\ ~tasks[2].completed
    /\ tasks[1].priority = P1 /\ tasks[1].dueDate > now
    /\ tasks[2].priority = P4 /\ IsOverdue(tasks[2])
    /\ displayed = <<tasks[2], tasks[1]>>

\* C6: among tasks equal in completion state, overdue state and priority a
\* task with a due date comes before one without, two due dates are in
\* ascending order, and tasks still tied are in descending order of
\* createdAt.
C6_DateThenCreatedAt ==
    \A i, j \in Positions :
        (/\ i < j
         /\ SameGroup(displayed[i], displayed[j])
         /\ displayed[i].priority = displayed[j].priority)
            => /\ ~(displayed[i].dueDate = NoDate /\ displayed[j].dueDate # NoDate)
               /\ (displayed[i].dueDate # NoDate /\ displayed[j].dueDate # NoDate)
                     => displayed[i].dueDate <= displayed[j].dueDate
               /\ displayed[i].dueDate = displayed[j].dueDate
                     => displayed[i].createdAt >= displayed[j].createdAt

(***************************************************************************)
(* Properties of the reminder lifecycle, checked under Spec.               *)
(***************************************************************************)
InFuture(date) == date # NoDate /\ date > now

\* C1: toggling a completed task back to incomplete registers no reminder,
\* even when its due date is strictly in the future: the reminders of the
\* scheduler are the same after the toggle as before.
C1_NoReminderOnUncomplete ==
    [][\A id \in TaskIds :
          (ToggleTask(id) /\ tasks[FindIndex(tasks, id)].completed)
             => (scheduler' = scheduler /\ nextNid' = nextNid)]_vars

\* C7: addTask with a due date strictly in the future calls schedule once
\* and the created task stores the identifier the call returned, none when
\* it failed; with an absent or past due date it makes no call and the
\* created task has no identifier.
C7_AddTaskReminder ==
    [][/\ \A f \in Forms, d \in DueDates :
            AddTaskCall(f.title, d, f.priority, f.projectId) =>
                IF InFuture(d)
                THEN /\ tasks' = tasks
                     /\ addOp'.pc = "scheduled"
                     /\ addOp'.log = <<ScheduleCall(f.title, d, addOp'.notificationId)>>
                     /\ IF addOp'.notificationId # NoId
                        THEN /\ Reminder(addOp'.notificationId, d) \notin scheduler
                             /\ scheduler' = scheduler \cup {Reminder(addOp'.notificationId, d)}
                        ELSE scheduler' = scheduler
                ELSE /\ scheduler' = scheduler
                     /\ nextNid' = nextNid
                     /\ addOp' = addOp
                     /\ Len(tasks') = Len(tasks) + 1
                     /\ tasks'[1].dueDate = d
                     /\ tasks'[1].notificationId = NoId
       /\ AddTaskResume =>
            /\ Len(addOp.log) = 1
            /\ scheduler' = scheduler
            /\ nextNid' = nextNid
            /\ Len(tasks') = Len(tasks) + 1
            /\ tasks'[1].dueDate = addOp.dueDate
            /\ tasks'[1].notificationId = addOp.log[1].id]_vars

\* the task addTask has just created stores the identifier of a registered
\* reminder for its due date
C7_Witness ==
    /\ Len(tasks) = 1
    /\ addOp.pc = "idle" /\ updOp.pc = "idle"
    /\ tasks[1].createdAt = now
    /\ tasks[1].dueDate > now
    /\ tasks[1].notificationId # NoId
    /\ scheduler = {Reminder(tasks[1].notificationId, tasks[1].dueDate)}
    /\ nextNid = 2

\* C8: when updateTask changes the due date an existing identifier is
\* cancelled before any schedule call; the task then stores the identifier
\* the schedule call for the new, future due date returned, which is not
\* the old one, and no identifier when the new due date is absent or not in
\* the future or the call failed.
C8_DueDateChange ==
    [][/\ \A id \in TaskIds :
            LET i == FindIndex(tasks, id) IN
            \A f \in Forms, d \in DueDates \ {tasks[i].dueDate} :
            UpdateTaskCall(id, f.title, d, f.priority, f.projectId) =>
                LET old == tasks[i].notificationId IN
                IF old # NoId
                THEN /\ updOp'.pc = "dueCancel"
                     /\ updOp'.log = <<CancelCall(old)>>
                     /\ scheduler' \in cancelReminder(scheduler, old)
                     /\ nextNid' = nextNid
                     /\ tasks' = tasks
                ELSE IF InFuture(d)
                THEN /\ updOp'.pc = "scheduled"
                     /\ updOp'.log = <<ScheduleCall(f.title, d, updOp'.newId)>>
                     /\ tasks' = tasks
                ELSE /\ scheduler' = scheduler
                     /\ nextNid' = nextNid
                     /\ tasks'[i].dueDate = d
                     /\ tasks'[i].notificationId = NoId
       /\ UpdateAfterDueCancel =>
            LET i == updOp.taskIndex
                old == updOp.closure[i].notificationId
            IN  IF InFuture(updOp.dueDate)
                THEN /\ updOp'.pc = "scheduled"
                     /\ updOp'.log = <<CancelCall(old),
                                       ScheduleCall(updOp.title, updOp.dueDate, updOp'.newId)>>
                     /\ tasks' = tasks
                ELSE /\ scheduler' = scheduler
                     /\ nextNid' = nextNid
                     /\ tasks'[i].dueDate = updOp.dueDate
                     /\ tasks'[i].notificationId = NoId
       /\ (UpdateResume /\ updOp.branch = "due") =>
            LET i == updOp.taskIndex
                old == updOp.closure[i].notificationId
                last == updOp.log[Len(updOp.log)]
            IN  /\ last.fn = "schedule"
                /\ scheduler' = scheduler
                /\ tasks'[i].dueDate = updOp.dueDate
                /\ tasks'[i].notificationId = last.id
                /\ last.id # NoId => last.id # old]_vars

\* updateTask has cancelled the reminder of the old due date and scheduled
\* one for the new due date, under another identifier
C8_Witness ==
    /\ updOp.pc = "scheduled"
    /\ updOp.branch = "due"
    /\ Len(updOp.log) = 2
    /\ updOp.log[1] = CancelCall(updOp.closure[updOp.taskIndex].notificationId)
    /\ updOp.log[2].fn = "schedule"
    /\ updOp.log[2].id # NoId
    /\ updOp.log[2].id # updOp.closure[updOp.taskIndex].notificationId
    /\ updOp.closure[updOp.taskIndex].dueDate # NoDate
    /\ Reminder(updOp.log[2].id, updOp.dueDate) \in scheduler

\* C9: when updateTask keeps the due date and changes the title of a task
\* with an identifier and a due date still in the future, the reminder is
\* cancelled, a replacement with the new title is scheduled and the task
\* does not keep the cancelled identifier; in every other case with the due
\* date unchanged the identifier is carried over.
C9_TitleChange ==
    [][/\ \A id \in TaskIds :
            LET i == FindIndex(tasks, id) IN
            \A f \in Forms, d \in DueDates \cap {tasks[i].dueDate} :
            UpdateTaskCall(id, f.title, d, f.priority, f.projectId) =>
                LET old == tasks[i].notificationId IN
                IF f.title # tasks[i].title /\ old # NoId /\ InFuture(d)
                THEN /\ updOp'.pc = "titleCancel"
                     /\ updOp'.log = <<CancelCall(old)>>
                     /\ tasks' = tasks
                ELSE /\ scheduler' = scheduler
                     /\ nextNid' = nextNid
                     /\ tasks'[i].notificationId = old
       /\ UpdateAfterTitleCancel =>
            /\ Len(updOp'.log) = 2
            /\ updOp'.log[2].fn = "schedule"
            /\ updOp'.log[2].title = updOp.title
       /\ (UpdateResume /\ updOp.branch = "title") =>
            LET i == updOp.taskIndex
                old == updOp.closure[i].notificationId
            IN  /\ tasks'[i].notificationId = updOp.log[2].id
                /\ tasks'[i].notificationId # old]_vars

\* C10: toggleTask marking a task with an identifier complete calls cancel
\* for it, and no later update of the task, while it is completed, registers
\* a reminder for it.
C10_NoReminderForCompleted ==
    [][/\ \A id \in TaskIds :
            LET t == tasks[FindIndex(tasks, id)] IN
            (ToggleTask(id) /\ ~t.completed /\ t.notificationId # NoId) =>
                /\ scheduler' \in cancelReminder(scheduler, t.notificationId)
                /\ nextNid' = nextNid
       /\ (/\ UpdateAfterDueCancel \/ UpdateAfterTitleCancel
           /\ updOp.closure[updOp.taskIndex].completed) =>
                scheduler' \subseteq scheduler]_vars

\* the list without its element at index i
Without(list, i) == SubSeq(list, 1, i - 1) \o SubSeq(list, i + 1, Len(list))

\* C11: deleteTask changes neither list nor the reminders until the dialog is
\* answered; the confirmation calls cancel for the identifier of the task,
\* if it has one, and takes that one task out of the in-memory list and of
\* the saved list, the other tasks staying as they were and in their order;
\* declining changes neither list nor the reminders.
C11_DeleteTask ==
    [][/\ \A id \in TaskIds :
            DeleteTaskCall(id) =>
                tasks' = tasks /\ saved' = saved /\ scheduler' = scheduler
       /\ DeleteDecline =>
                tasks' = tasks /\ saved' = saved /\ scheduler' = scheduler
       /\ DeleteConfirm =>
            LET i == FindIndex(tasks, delOp.id) IN
            IF i = 0
            THEN tasks' = tasks /\ saved' = tasks /\ scheduler' = scheduler
            ELSE /\ tasks' = Without(tasks, i)
                 /\ saved' = Without(tasks, i)
                 /\ IF tasks[i].notificationId # NoId
                    THEN scheduler' \in cancelReminder(scheduler, tasks[i].notificationId)
                    ELSE scheduler' = scheduler]_vars

\* C12: whatever the schedule or cancel call of add, update, toggle and
\* confirmed delete returns, the change of the list is applied and saved,
\* and when the schedule call failed the task stores no identifier.
C12_FailureNeverBlocks ==
    [][/\ AddTaskResume =>
            /\ Len(tasks') = Len(tasks) + 1
            /\ tasks'[1].title = addOp.title
            /\ saved' = tasks'
            /\ addOp.log[1].id = NoId => tasks'[1].notificationId = NoId
       /\ UpdateAfterDueCancel =>
            \/ updOp'.pc = "scheduled"
            \/ /\ tasks'[updOp.taskIndex].dueDate = updOp.dueDate
               /\ saved' = tasks'
       /\ UpdateAfterTitleCancel => updOp'.pc = "scheduled"
       /\ UpdateResume =>
            LET i == updOp.taskIndex IN
            /\ tasks'[i].title = updOp.title
            /\ tasks'[i].dueDate = updOp.dueDate
            /\ saved' = tasks'
            /\ updOp.log[Len(updOp.log)].id = NoId => tasks'[i].notificationId = NoId
       /\ \A id \in TaskIds :
            ToggleTask(id) =>
                LET i == FindIndex(tasks, id) IN
                /\ tasks'[i].completed = ~tasks[i].completed
                /\ saved' = tasks'
       /\ DeleteConfirm =>
            /\ FindIndex(tasks', delOp.id) = 0
            /\ saved' = tasks']_vars

\* C13: the in-memory list changes in the step in which add, update (of a
\* task in the list, with a changed field), toggle or confirmed delete is
\* invoked, without a wait for the answer of a schedule or cancel call.
C13_AppliedImmediately ==
    [][/\ \A f \in Forms, d \in DueDates :
            AddTaskCall(f.title, d, f.priority, f.projectId) =>
                /\ Len(tasks') = Len(tasks) + 1
                /\ tasks'[1].title = f.title
       /\ \A id \in TaskIds :
            LET i == FindIndex(tasks, id) IN
            \A f \in Forms, d \in DueDates :
            UpdateTaskCall(id, f.title, d, f.priority, f.projectId) =>
                /\ tasks'[i].title = f.title
                /\ tasks'[i].dueDate = d
       /\ \A id \in TaskIds :
            ToggleTask(id) =>
                tasks'[FindIndex(tasks, id)].completed = ~tasks[FindIndex(tasks, id)].completed
       /\ DeleteConfirm => FindIndex(tasks', delOp.id) = 0]_vars

\* C14: the tasks of the in-memory list have pairwise distinct identifiers.
C14_DistinctIds ==
    \A i, j \in 1..Len(tasks) : i # j => tasks[i].id # tasks[j].id

\* the identifiers the tasks of a list store, each with the due date of its task
Pairs(list) ==
    {<<list[i].notificationId, list[i].dueDate>> :
        i \in {j \in 1..Len(list) : list[j].notificationId # NoId}}

\* the schedule calls of a log that returned an identifier
Returned(log) ==
    {log[k] : k \in {j \in 1..Len(log) : log[j].fn = "schedule" /\ log[j].id # NoId}}

\* C15: a task without a due date stores no identifier, and an identifier a
\* task stores was returned by a schedule call for the due date of the task,
\* made when that date was strictly in the future.  Step by step: an
\* identifier that enters the list, with its due date, was returned for that
\* date to the handler that stores it; a schedule call returns an identifier
\* only for a date after the clock; and the list a handler closed over holds
\* only what the in-memory list held.
C15_IdentifierOnlyForFutureDueDate ==
    [][/\ \A i \in 1..Len(tasks') :
            tasks'[i].dueDate = NoDate => tasks'[i].notificationId = NoId
       /\ \A p \in Pairs(tasks') \ (Pairs(tasks) \cup Pairs(updOp.closure)) :
            \E c \in Returned(addOp.log) \cup Returned(updOp.log) :
                c.id = p[1] /\ c.date = p[2]
       /\ \A c \in (Returned(addOp'.log) \cup Returned(updOp'.log))
                      \ (Returned(addOp.log) \cup Returned(updOp.log)) :
            c.date # NoDate /\ c.date > now
       /\ Pairs(updOp'.closure) \subseteq Pairs(tasks) \cup Pairs(updOp.closure)]_vars

\* after a change of its due date the task stores the identifier returned
\* for the new date
C15_Witness ==
    /\ Len(tasks) = 1
    /\ addOp.pc = "idle" /\ updOp.pc = "idle"
    /\ tasks[1].notificationId = 2
    /\ tasks[1].dueDate = 3
    /\ now < 3
    /\ scheduler = {Reminder(2, 3)}

\* C16: every change of the in-memory list is followed, in the same step, by
\* a save of the whole new list: the payload of the last save is the
\* in-memory list.
C16_WholeListSaved == saved = tasks

\* two tasks, one of them toggled, and the last save holds both
C16_Witness ==
    /\ Len(tasks) = 2
    /\ tasks[1].completed /\ ~tasks[2].completed
    /\ tasks[2].title = "b"
    /\ stored
    /\ saved = tasks

(***************************************************************************)
(* Properties of loading, checked under SpecLoad.                          *)
(***************************************************************************)
\* C17: the project reference of every task of the in-memory list is the
\* identifier of one of the fixed projects, also right after the stored
\* records were loaded.
C17_ProjectResolves ==
    \A i \in 1..Len(tasks) : tasks[i].projectId \in DEFAULT_PROJECTS

\* a stored record without a project reference has been loaded into the
\* default project
C17_Witness ==
    /\ loadOp = LoadDone
    /\ ~loading
    /\ Len(tasks) = 2
    /\ Len(saved) = 2
    /\ saved[1].projectId = NoProject
    /\ tasks[1].id = saved[1].id
    /\ tasks[1].projectId = "inbox"
    /\ tasks[2].projectId = "work"

\* C18: when loadTasks resumes with a stored value the in-memory list holds
\* the stored records in their order, a missing priority replaced by the
\* lowest level and a missing project reference by the default project, and
\* every other field as stored; when the read failed or found nothing the
\* list is left as it is, empty if nothing was added since the mount; in
\* every case the loading state ends.
C18_LoadMigrates ==
    [][LoadResume =>
        /\ loading' = FALSE
        /\ IF loadOp.item = "value"
           THEN /\ Len(tasks') = Len(loadOp.value)
                /\ \A i \in 1..Len(loadOp.value) :
                      LET r == loadOp.value[i]
                          t == tasks'[i]
                      IN  /\ t.priority = IF r.priority = NoPriority THEN P4 ELSE r.priority
                          /\ t.projectId = IF r.projectId = NoProject THEN "inbox"
                                           ELSE r.projectId
                          /\ t.id = r.id
                          /\ t.title = r.title
                          /\ t.completed = r.completed
                          /\ t.createdAt = r.createdAt
                          /\ t.dueDate = r.dueDate
                          /\ t.notificationId = r.notificationId
           ELSE /\ tasks' = tasks
                /\ loadOp.value = << >>]_vars

\* two stored records, the first without priority, the second without
\* project reference, have been loaded in their order
C18_Witness ==
    /\ loadOp = LoadDone
    /\ ~loading
    /\ Len(tasks) = 2
    /\ Len(saved) = 2
    /\ saved[1].priority = NoPriority /\ saved[1].projectId = "work"
    /\ saved[2].priority = P1 /\ saved[2].projectId = NoProject
    /\ tasks[1] = [saved[1] EXCEPT !.priority = P4]
    /\ tasks[2] = [saved[2] EXCEPT !.projectId = "inbox"]

(***************************************************************************)
(* Frame of update and toggle, checked under Spec, and the filter, checked *)
(* under SpecOrder.                                                        *)
(***************************************************************************)
\* id and createdAt of every task are kept, and so are length and order
SameIdentities ==
    /\ Len(tasks') = Len(tasks)
    /\ \A j \in 1..Len(tasks) :
          tasks'[j].id = tasks[j].id /\ tasks'[j].createdAt = tasks[j].createdAt

\* a step of updateTask: its call or one of its resumptions
UpdateStep ==
    \/ \E id \in Times, f \in Forms, d \in DueDates :
          UpdateTaskCall(id, f.title, d, f.priority, f.projectId)
    \/ UpdateAfterDueCancel
    \/ UpdateAfterTitleCancel
    \/ UpdateResume

\* C19: a step of updateTask or toggleTask keeps the identifier and the
\* creation timestamp of every task and the length and order of the list,
\* and changes no task but the one it was called for; updateTask called with
\* an identifier that is not in the list changes nothing and calls neither
\* schedule nor cancel.
C19_UpdateToggleFrame ==
    [][/\ UpdateStep =>
            /\ SameIdentities
            /\ \E k \in 0..Len(tasks) :
                  \A j \in 1..Len(tasks) : j # k => tasks'[j] = tasks[j]
       /\ \A id \in TaskIds :
            ToggleTask(id) =>
                /\ SameIdentities
                /\ \A j \in 1..Len(tasks) : j # FindIndex(tasks, id) => tasks'[j] = tasks[j]
       /\ \A id \in Times \ TaskIds, f \in Forms, d \in DueDates :
            UpdateTaskCall(id, f.title, d, f.priority, f.projectId) =>
                /\ tasks' = tasks
                /\ saved' = saved
                /\ scheduler' = scheduler
                /\ nextNid' = nextNid
                /\ updOp' = updOp]_vars

\* how often a task occurs in a list
Count(list, t) == Cardinality({i \in 1..Len(list) : list[i] = t})

Elements(list) == {list[i] : i \in 1..Len(list)}

\* C20: after the filter is set or cleared the ordered output holds each
\* task of the in-memory list whose project is the filter, or each task
\* when there is no filter, as often as the list holds it, and nothing
\* else, so nothing for an empty list; the in-memory list is as it was.
C20_FilterRetains ==
    [][(\E p \in {NoProject} \cup DEFAULT_PROJECTS : SelectProject(p)) =>
        /\ tasks' = tasks
        /\ \A t \in Elements(tasks) \cup Elements(displayed') :
              Count(displayed', t) =
                 IF selectedProjectId' = NoProject \/ t.projectId = selectedProjectId'
                 THEN Count(tasks, t) ELSE 0
        /\ tasks = << >> => displayed' = << >>]_vars

\* the filter shows two of three tasks
C20_Witness ==
    /\ selectedProjectId = "work"
    /\ Len(tasks) = 3
    /\ Len(displayed) = 2
    /\ tasks[1].projectId = "inbox"
    /\ \A i \in 1..2 : displayed[i].projectId = "work"

(***************************************************************************)
(* Interleavings: handlers called while another handler waits.             *)
(***************************************************************************)
\* the step in which an updateTask that has waited writes the list
UpdateWrites ==
    \/ UpdateResume
    \/ UpdateAfterDueCancel /\ updOp'.pc = "idle"

\* C21: when updateTask writes the list after it has waited for a cancel or
\* schedule call, what add, toggle and confirmed delete did in the meantime
\* is kept: the in-memory and the saved list hold the tasks the list held
\* just before, no more and no fewer, each with its completion flag.
C21_NoLostMutation ==
    [][UpdateWrites =>
        /\ Len(tasks') = Len(tasks)
        /\ \A j \in 1..Len(tasks) :
              /\ tasks'[j].id = tasks[j].id
              /\ tasks'[j].completed = tasks[j].completed
        /\ saved' = tasks']_vars

\* the identifiers registered with the scheduler
Registered(sch) == {r.id : r \in sch}

\* how many hold an identifier: the tasks that store it and the handlers
\* that wait to store it
HoldersIn(list, a, u, nid) ==
    Cardinality({i \in 1..Len(list) : list[i].notificationId = nid})
    + (IF a.pc = "scheduled" /\ a.notificationId = nid THEN 1 ELSE 0)
    + (IF u.pc = "scheduled" /\ u.newId = nid THEN 1 ELSE 0)

\* the registered reminders that are not held exactly once
OrphansIn(sch, list, a, u) == {r \in sch : HoldersIn(list, a, u, r.id) # 1}

\* the cancel call of the step, if it makes one, has removed the reminder
CancelSucceeded ==
    /\ (updOp.pc = "idle" /\ updOp'.pc \in {"dueCancel", "titleCancel"}) =>
            updOp'.log[1].id \notin Registered(scheduler')
    /\ \A id \in TaskIds :
            LET t == tasks[FindIndex(tasks, id)] IN
            (ToggleTask(id) /\ ~t.completed) => t.notificationId \notin Registered(scheduler')
    /\ DeleteConfirm =>
            \A i \in 1..Len(tasks) :
                tasks[i].id = delOp.id => tasks[i].notificationId \notin Registered(scheduler')

\* C22: no reminder is orphaned.  A step whose cancel call succeeds leaves
\* no registered reminder without exactly one holder, a task of the list
\* that stores its identifier or a handler that waits to store it, unless
\* the reminder was without one before; so when no handler waits and no
\* call has failed every registered reminder is referenced by exactly one
\* task of the list.
C22_NoOrphanedReminders ==
    [][CancelSucceeded =>
          OrphansIn(scheduler', tasks', addOp', updOp')
             \subseteq OrphansIn(scheduler, tasks, addOp, updOp)]_vars

\* the identifiers of the tasks of a list
IdsOf(list) == {list[i].id : i \in 1..Len(list)}

\* C23: an addTask made while loadTasks is pending loses nothing: the save
\* it issues still holds the tasks that were persisted, and when the load
\* resumes the in-memory list holds the tasks it held, the added one among
\* them, and every task that was read from the store.
C23_AddWhileLoading ==
    [][/\ \A f \in Forms, d \in DueDates :
            (loading /\ stored /\ AddTaskCall(f.title, d, f.priority, f.projectId)) =>
                IdsOf(saved) \subseteq IdsOf(saved')
       /\ LoadResume =>
            /\ IdsOf(tasks) \subseteq IdsOf(tasks')
            /\ IdsOf(loadOp.value) \subseteq IdsOf(tasks')]_vars

====
